---- MODULE Spec2Model ----
(***************************************************************************)
(* Model of lambda_function.py: the meeting-notes summarizer.              *)
(*                                                                         *)
(*   - S3BucketManager: head_bucket / create_bucket at module load, and    *)
(*     put_object per request;                                             *)
(*   - NotesSummarizer: MIME text extraction, the two Bedrock Converse     *)
(*     round trips (summary, file name) with their fallbacks;              *)
(*   - lambda_handler: validation, base64 decoding, the pipeline, the S3   *)
(*     key and the response envelope.                                      *)
(*                                                                         *)
(* Text is a sequence of code points where the code looks inside it (the   *)
(* MIME payloads and what is extracted from them) and a string elsewhere.  *)
(***************************************************************************)
EXTENDS Integers, Sequences, FiniteSets, TLC

VARIABLES
    pc,              \* position of the process: module load, then lambda_handler
    headResult,      \* outcome of head_bucket in S3BucketManager.__init__
    createCalls,     \* number of create_bucket calls made
    event,           \* the request handed to lambda_handler
    text,            \* summarize_meeting_notes: the extracted text
    sumConv,         \* summarize_meeting_notes: its `messages` list
    nameConv,        \* infer_meeting_notes_file_name: its `messages` list
    calls,           \* the Converse calls made: <<stage, conversation sent, outcome>>
    summarized_note, \* lambda_handler: the summary
    file_name,       \* lambda_handler: the inferred file name
    now,             \* lambda_handler: datetime.now()
    s3_key,          \* lambda_handler: the key
    puts,            \* the put_object calls made: <<key, body, accepted>>
    bucket,          \* the objects of the bucket: key -> body
    response,        \* what lambda_handler returned
    xin,             \* extraction harness: the bytes handed to the extractor
    xout             \* extraction harness: the results of the calls made so far

vars == <<pc, headResult, createCalls, event, text, sumConv, nameConv, calls,
          summarized_note, file_name, now, s3_key, puts, bucket, response,
          xin, xout>>

(***************************************************************************)
(* Bounds.                                                                 *)
(***************************************************************************)
\* parts (containers included) of a message handed to the extractor alone
MaxParts == 3
\* parts (containers included) of the payload of a request
MaxReqParts == 2

(***************************************************************************)
(* MIME messages.  The raw bytes are the parts in document order, each     *)
(* with its nesting depth; message_from_bytes turns them into a tree.      *)
(***************************************************************************)
NoCharset == ""
Multipart == "multipart/mixed"
TextPlain == "text/plain"

\* payload bytes of the parts: empty, blank, plain ASCII, ASCII in
\* whitespace, a two-byte UTF-8 sequence, a byte that is no UTF-8
SamplePayloads ==
    { <<>>, <<32>>, <<65>>, <<10, 65, 32>>, <<195, 169>>, <<233>> }

PlainParts ==
    [ctype : {TextPlain}, charset : {NoCharset, "latin-1"}, payload : SamplePayloads]
OtherParts ==
    [ctype : {"text/html", "application/octet-stream"}, charset : {NoCharset},
     payload : {<<66>>}]
ContainerParts ==
    [ctype : {Multipart}, charset : {NoCharset}, payload : {<<>>}]
Parts == PlainParts \cup OtherParts \cup ContainerParts

\* the part of raw that encloses part i: the last one before it one level up
Encloser(depths, i) ==
    CHOOSE j \in 1..(i - 1) :
        /\ depths[j] = depths[i] - 1
        /\ \A k \in (j + 1)..(i - 1) : depths[k] >= depths[i]

WellFormed(parts, depths) ==
    /\ depths[1] = 0
    /\ \A i \in 2..Len(parts) :
        /\ depths[i] >= 1
        /\ depths[i] <= depths[i - 1] + 1
        /\ parts[Encloser(depths, i)].ctype = Multipart

\* the byte strings of at most n parts; <<>> is the empty byte string
RawMessages(n) ==
    {<<>>} \cup
    UNION { { [i \in 1..k |-> [part |-> ps[i], depth |-> ds[i]]] :
                <<ps, ds>> \in { pd \in [1..k -> Parts] \X [1..k -> 0..(k - 1)] :
                                    WellFormed(pd[1], pd[2]) } } : k \in 1..n }

Depths(raw) == [i \in 1..Len(raw) |-> raw[i].depth]

RECURSIVE KidsFrom(_, _, _)
KidsFrom(raw, i, j) ==
    IF j > Len(raw) THEN <<>>
    ELSE (IF Encloser(Depths(raw), j) = i THEN <<j>> ELSE <<>>) \o KidsFrom(raw, i, j + 1)

\* message_from_bytes: the Message tree, node 1 the root.  Empty bytes parse
\* to a message without headers, whose content type defaults to text/plain.
message_from_bytes(raw) ==
    IF raw = <<>>
    THEN << [ctype |-> TextPlain, charset |-> NoCharset, payload |-> <<>>, kids |-> <<>>] >>
    ELSE [i \in 1..Len(raw) |->
            [ctype |-> raw[i].part.ctype, charset |-> raw[i].part.charset,
             payload |-> raw[i].part.payload,
             kids |-> IF i = Len(raw) THEN <<>> ELSE KidsFrom(raw, i, i + 1)]]

is_multipart(message, n) == message[n].kids # <<>>

\* a walk that yields the subparts of the node but not theirs
walk_top_level(message, n) == <<n>> \o message[n].kids

\* Message.walk: the node, then each subpart's walk
RECURSIVE walk(_, _)
RECURSIVE walkAll(_, _)
walk(message, n) == <<n>> \o walkAll(message, message[n].kids)
walkAll(message, ks) ==
    IF ks = <<>> THEN <<>> ELSE walk(message, Head(ks)) \o walkAll(message, Tail(ks))

(***************************************************************************)
(* bytes.decode for the two charsets of the model.  A result is            *)
(* [raised, value]: the exception's message or the value returned.         *)
(***************************************************************************)
Returned(v) == [raised |-> FALSE, value |-> v]
Raised(m) == [raised |-> TRUE, value |-> m]

UnicodeDecodeError == "'utf-8' codec can't decode byte"

RECURSIVE decode_utf8(_)
decode_utf8(bytes) ==
    IF bytes = <<>> THEN Returned(<<>>)
    ELSE IF bytes[1] < 128
    THEN LET rest == decode_utf8(Tail(bytes))
         IN IF rest.raised THEN rest ELSE Returned(<<bytes[1]>> \o rest.value)
    ELSE IF /\ bytes[1] \in 194..223
            /\ Len(bytes) >= 2
            /\ bytes[2] \in 128..191
    THEN LET rest == decode_utf8(Tail(Tail(bytes)))
         IN IF rest.raised THEN rest
            ELSE Returned(<<(bytes[1] - 192) * 64 + (bytes[2] - 128)>> \o rest.value)
    ELSE Raised(UnicodeDecodeError)

decode(bytes, charset) ==
    IF charset = "latin-1" THEN Returned(bytes) ELSE decode_utf8(bytes)

\* NotesSummarizer.__extract_text_from_part
extract_text_from_part(part) ==
    IF part.ctype = TextPlain
    THEN decode(part.payload, IF part.charset = NoCharset THEN "utf-8" ELSE part.charset)
    ELSE Returned(<<>>)

\* str.strip: the code points str.isspace holds of, below U+0100
Whitespace == {9, 10, 11, 12, 13, 28, 29, 30, 31, 32, 133, 160}

RECURSIVE lstrip(_)
lstrip(s) == IF s # <<>> /\ Head(s) \in Whitespace THEN lstrip(Tail(s)) ELSE s
RECURSIVE rstrip(_)
rstrip(s) ==
    IF s # <<>> /\ s[Len(s)] \in Whitespace THEN rstrip(SubSeq(s, 1, Len(s) - 1)) ELSE s
strip(s) == rstrip(lstrip(s))

\* the loop `for part in ...: text += self.__extract_text_from_part(part)`
RECURSIVE accumulate(_, _, _)
accumulate(message, order, acc) ==
    IF order = <<>> THEN Returned(acc)
    ELSE LET r == extract_text_from_part(message[Head(order)])
         IN IF r.raised THEN r ELSE accumulate(message, Tail(order), acc \o r.value)

\* NotesSummarizer._extract_text_from_multidata
extract_text_from_multidata(multidata) ==
    LET message == message_from_bytes(multidata)
        r == IF is_multipart(message, 1)
             THEN accumulate(message, walk(message, 1), <<>>)
             ELSE accumulate(message, <<1>>, <<>>)
    IN IF r.raised THEN r
       ELSE Returned(IF r.value # <<>> THEN strip(r.value) ELSE <<>>)

(***************************************************************************)
(* Bedrock Converse: conversations, replies, and the text of a reply.      *)
(***************************************************************************)
SUMMARY_INSTRUCTION ==
    "Please provide a concise summary of the following meeting notes, highlighting key points and action items:"
PROMPT_SECTION_SEPARATOR == "\n###\n"
FILE_NAME_INSTRUCTION ==
    "Based on the following meeting notes, suggest a concise and descriptive file name for the summary."
SUMMARY_FALLBACK == "An error occurred while summarizing the meeting notes."
FILE_NAME_FALLBACK == "meeting-notes-summary.txt"

\* the f-strings of the two prompts, kept as their pieces
SummaryPrompt(t) ==
    [instruction |-> SUMMARY_INSTRUCTION, separator |-> PROMPT_SECTION_SEPARATOR,
     notes |-> t, trailer |-> PROMPT_SECTION_SEPARATOR]
FileNamePrompt(notes) ==
    [instruction |-> FILE_NAME_INSTRUCTION, notes |-> notes,
     trailer |-> "Suggested File Name: "]

UserTurn(prompt) == [role |-> "user", content |-> << [text |-> prompt] >>]

TextBlock(s) == [kind |-> "text", text |-> s]
ImageBlock == [kind |-> "image", text |-> ""]
ModelTexts == {"SUMMARY", "my-file.txt"}

\* the `message` of a Converse response
ReplyMessages ==
    { [role |-> "assistant", content |-> c] :
        c \in {<<>>} \cup { <<TextBlock(s)>> : s \in ModelTexts }
                     \cup { <<ImageBlock, TextBlock(s)>> : s \in ModelTexts }
                     \cup { <<TextBlock("SUMMARY"), TextBlock("my-file.txt")>> } }

\* what bedrock_runtime_client.converse does: it raises, or it returns a
\* response whose output has no message, or one with a message
ConverseOutcomes ==
    { [kind |-> "raise", message |-> [role |-> "", content |-> <<>>]],
      [kind |-> "no_message", message |-> [role |-> "", content |-> <<>>]] }
    \cup { [kind |-> "message", message |-> m] : m \in ReplyMessages }

\* NotesSummarizer._extract_text: the first block with a text
RECURSIVE extract_text(_)
extract_text(content) ==
    IF content = <<>> THEN ""
    ELSE IF Head(content).kind = "text" THEN Head(content).text
    ELSE extract_text(Tail(content))

\* NotesSummarizer._get_bedrock_response_and_append, given what converse did:
\* the conversation afterwards, and the message returned or the exception
get_bedrock_response_and_append(conversation, outcome) ==
    IF outcome.kind = "message"
    THEN [conversation |-> Append(conversation, outcome.message),
          result |-> Returned(outcome.message)]
    ELSE [conversation |-> conversation,
          result |-> Raised(IF outcome.kind = "raise"
                            THEN "An error occurred when calling the Converse operation"
                            ELSE "Bedrock response did not contain a message in output")]

\* a stage whose except branch returns no text
stage_result_without_fallback(got, fallback) ==
    IF got.result.raised THEN "" ELSE extract_text(got.result.value.content)

\* the try/except of a stage: the reply's text, or the stage's fallback
stage_result(got, fallback) ==
    IF got.result.raised THEN fallback ELSE extract_text(got.result.value.content)

(***************************************************************************)
(* lambda_handler: the key and the response envelopes.                     *)
(***************************************************************************)
PARAM_TRANSCRIPT == "body"

Digit(d) ==
    CASE d = 0 -> "0" [] d = 1 -> "1" [] d = 2 -> "2" [] d = 3 -> "3" [] d = 4 -> "4"
      [] d = 5 -> "5" [] d = 6 -> "6" [] d = 7 -> "7" [] d = 8 -> "8" [] d = 9 -> "9"

\* str of a natural number, as an f-string formats it
RECURSIVE str(_)
str(n) == IF n < 10 THEN Digit(n) ELSE str(n \div 10) \o Digit(n % 10)

\* a key whose month and day are two digits wide
build_s3_key_padded(d, name) ==
    str(d.year) \o "/" \o (IF d.month < 10 THEN "0" ELSE "") \o str(d.month)
        \o "/" \o (IF d.day < 10 THEN "0" ELSE "") \o str(d.day) \o "/" \o name

\* f"{now.year}/{now.month}/{now.day}/{file_name}"
build_s3_key(d, name) ==
    str(d.year) \o "/" \o str(d.month) \o "/" \o str(d.day) \o "/" \o name

\* json.dumps({'error': message})
json_dumps_error(message) == "{\"error\": \"" \o message \o "\"}"

NoResponse == [statusCode |-> 0, body |-> ""]
Response(code, body) == [statusCode |-> code, body |-> body]

\* a validation that accepts every event
validate_input_accepting(body_data) == NoResponse

\* _validate_input
validate_input(body_data) ==
    IF ~body_data.hasBody
    THEN Response(400, json_dumps_error("Missing required parameter: " \o PARAM_TRANSCRIPT))
    ELSE NoResponse

\* an except branch that returns the message without the JSON object
handler_except_bare(message) == Response(500, message)

\* the `except Exception` of lambda_handler
handler_except(message) == Response(500, json_dumps_error(message))

\* b64decode of the body: it raises on a body that is no base64, and
\* returns the bytes otherwise
Base64Error == "Incorrect padding"
b64decode(body_data) ==
    IF body_data.b64ok THEN Returned(body_data.payload) ELSE Raised(Base64Error)

PutObjectError ==
    "An error occurred (AccessDenied) when calling the PutObject operation: Access Denied"

Dates == { [year |-> 2024, month |-> 3, day |-> 7],
           [year |-> 2025, month |-> 12, day |-> 31] }
NoDate == [year |-> 0, month |-> 0, day |-> 0]

Events ==
    { [hasBody |-> FALSE, b64ok |-> FALSE, payload |-> <<>>],
      [hasBody |-> TRUE, b64ok |-> FALSE, payload |-> <<>>] }
    \cup [hasBody : {TRUE}, b64ok : {TRUE}, payload : RawMessages(MaxReqParts)]
NoEvent == [hasBody |-> FALSE, b64ok |-> FALSE, payload |-> <<>>]

(***************************************************************************)
(* The process.  Module load constructs the S3BucketManager; the handler   *)
(* then serves a request.                                                  *)
(***************************************************************************)
RequestLocals ==
    /\ event = NoEvent
    /\ text = <<>>
    /\ sumConv = <<>>
    /\ nameConv = <<>>
    /\ calls = <<>>
    /\ summarized_note = ""
    /\ file_name = ""
    /\ now = NoDate
    /\ s3_key = ""
    /\ puts = <<>>
    /\ bucket = {}
    /\ response = NoResponse

Init ==
    /\ pc = "load"
    /\ headResult = "none"
    /\ createCalls = 0
    /\ RequestLocals
    /\ xin = <<>>
    /\ xout = <<>>

\* a constructor that creates the bucket whatever head_bucket did
HeadBucket_then_create ==
    /\ pc = "load"
    /\ \E r \in {"ok", "ClientError", "OtherError"} :
        /\ headResult' = r
        /\ pc' = "create"
    /\ UNCHANGED <<createCalls, event, text, sumConv, nameConv, calls, summarized_note,
                   file_name, now, s3_key, puts, bucket, response, xin, xout>>

\* S3BucketManager.__init__: head_bucket succeeds, raises ClientError, or
\* raises an exception that is no ClientError (no endpoint, no credentials)
HeadBucket ==
    /\ pc = "load"
    /\ \E r \in {"ok", "ClientError", "OtherError"} :
        /\ headResult' = r
        /\ pc' = CASE r = "ok" -> "ready"
                   [] r = "ClientError" -> "create"
                   [] r = "OtherError" -> "load_failed"
    /\ UNCHANGED <<createCalls, event, text, sumConv, nameConv, calls, summarized_note,
                   file_name, now, s3_key, puts, bucket, response, xin, xout>>

\* S3BucketManager.__init__, the except branch: create_bucket; an exception
\* of it leaves the module load at line 242
CreateBucket ==
    /\ pc = "create"
    /\ createCalls' = createCalls + 1
    /\ \E created \in BOOLEAN : pc' = IF created THEN "ready" ELSE "load_failed"
    /\ UNCHANGED <<headResult, event, text, sumConv, nameConv, calls, summarized_note,
                   file_name, now, s3_key, puts, bucket, response, xin, xout>>

\* the runtime calls lambda_handler with an event
Invoke ==
    /\ pc = "ready"
    /\ event' \in Events
    /\ pc' = "handler"
    /\ UNCHANGED <<headResult, createCalls, text, sumConv, nameConv, calls,
                   summarized_note, file_name, now, s3_key, puts, bucket, response,
                   xin, xout>>

\* lambda_handler up to the call of summarize_meeting_notes
ValidateAndDecode ==
    /\ pc = "handler"
    /\ LET validation_error == validate_input(event)
           message == b64decode(event)
       IN IF validation_error # NoResponse
          THEN response' = validation_error /\ pc' = "done"
          ELSE IF message.raised
          THEN response' = handler_except(message.value) /\ pc' = "done"
          ELSE IF message.value = <<>>
          THEN /\ response' = Response(400, json_dumps_error("Transcript content is empty"))
               /\ pc' = "done"
          ELSE response' = response /\ pc' = "summarize"
    /\ UNCHANGED <<headResult, createCalls, event, text, sumConv, nameConv, calls,
                   summarized_note, file_name, now, s3_key, puts, bucket, xin, xout>>

\* summarize_meeting_notes: the extraction is outside its try, so what the
\* extraction raises reaches the except of lambda_handler
SummarizeMeetingNotes ==
    /\ pc = "summarize"
    /\ LET extracted == extract_text_from_multidata(event.payload)
       IN IF extracted.raised
          THEN /\ response' = handler_except(extracted.value)
               /\ pc' = "done"
               /\ UNCHANGED <<text, sumConv, calls, summarized_note>>
          ELSE \E outcome \in ConverseOutcomes :
                 LET messages == <<UserTurn(SummaryPrompt(extracted.value))>>
                     got == get_bedrock_response_and_append(messages, outcome)
                 IN /\ text' = extracted.value
                    /\ calls' = Append(calls, [stage |-> "summary", sent |-> messages,
                                               outcome |-> outcome])
                    /\ sumConv' = got.conversation
                    /\ summarized_note' = stage_result(got, SUMMARY_FALLBACK)
                    /\ pc' = "infer"
                    /\ response' = response
    /\ UNCHANGED <<headResult, createCalls, event, nameConv, file_name, now, s3_key,
                   puts, bucket, xin, xout>>

\* a file-name stage that goes on from the summarization's conversation
InferFileName_shared_history ==
    /\ pc = "infer"
    /\ \E outcome \in ConverseOutcomes :
         LET messages == Append(sumConv, UserTurn(FileNamePrompt(summarized_note)))
             got == get_bedrock_response_and_append(messages, outcome)
         IN /\ calls' = Append(calls, [stage |-> "file_name", sent |-> messages,
                                       outcome |-> outcome])
            /\ nameConv' = got.conversation
            /\ file_name' = stage_result(got, FILE_NAME_FALLBACK)
    /\ pc' = "upload"
    /\ UNCHANGED <<headResult, createCalls, event, text, sumConv, summarized_note, now,
                   s3_key, puts, bucket, response, xin, xout>>

\* infer_meeting_notes_file_name
InferFileName ==
    /\ pc = "infer"
    /\ \E outcome \in ConverseOutcomes :
         LET messages == <<UserTurn(FileNamePrompt(summarized_note))>>
             got == get_bedrock_response_and_append(messages, outcome)
         IN /\ calls' = Append(calls, [stage |-> "file_name", sent |-> messages,
                                       outcome |-> outcome])
            /\ nameConv' = got.conversation
            /\ file_name' = stage_result(got, FILE_NAME_FALLBACK)
    /\ pc' = "upload"
    /\ UNCHANGED <<headResult, createCalls, event, text, sumConv, summarized_note, now,
                   s3_key, puts, bucket, response, xin, xout>>

\* a handler in which something raises after the object was put
Upload_then_raise ==
    /\ pc = "upload"
    /\ \E d \in Dates, accepted \in BOOLEAN :
         LET key == build_s3_key(d, file_name)
         IN /\ now' = d
            /\ s3_key' = key
            /\ puts' = Append(puts, [key |-> key, body |-> summarized_note,
                                     accepted |-> accepted])
            /\ bucket' = IF accepted
                         THEN {o \in bucket : o.key # key}
                                \cup {[key |-> key, body |-> summarized_note]}
                         ELSE bucket
            /\ response' = handler_except(PutObjectError)
    /\ pc' = "done"
    /\ UNCHANGED <<headResult, createCalls, event, text, sumConv, nameConv, calls,
                   summarized_note, file_name, xin, xout>>

\* lambda_handler from datetime.now() on: the key, S3BucketManager.upload,
\* and the response
Upload ==
    /\ pc = "upload"
    /\ \E d \in Dates, accepted \in BOOLEAN :
         LET key == build_s3_key(d, file_name)
         IN /\ now' = d
            /\ s3_key' = key
            /\ puts' = Append(puts, [key |-> key, body |-> summarized_note,
                                     accepted |-> accepted])
            /\ IF accepted
               THEN /\ bucket' = {o \in bucket : o.key # key}
                                   \cup {[key |-> key, body |-> summarized_note]}
                    /\ response' = Response(200, summarized_note)
               ELSE /\ bucket' = bucket
                    /\ response' = handler_except(PutObjectError)
    /\ pc' = "done"
    /\ UNCHANGED <<headResult, createCalls, event, text, sumConv, nameConv, calls,
                   summarized_note, file_name, xin, xout>>

Next ==
    \/ HeadBucket
    \/ CreateBucket
    \/ Invoke
    \/ ValidateAndDecode
    \/ SummarizeMeetingNotes
    \/ InferFileName
    \/ Upload

Spec == Init /\ [][Next]_vars

(***************************************************************************)
(* The extractor alone: _extract_text_from_multidata applied, twice, to    *)
(* every message of the bound.                                             *)
(***************************************************************************)
InitExtract ==
    /\ pc = "extract"
    /\ headResult = "none"
    /\ createCalls = 0
    /\ RequestLocals
    /\ xin \in RawMessages(MaxParts)
    /\ xout = <<>>

ExtractCall ==
    /\ pc = "extract"
    /\ Len(xout) < 2
    /\ xout' = Append(xout, extract_text_from_multidata(xin))
    /\ UNCHANGED <<pc, headResult, createCalls, event, text, sumConv, nameConv, calls,
                   summarized_note, file_name, now, s3_key, puts, bucket, response, xin>>

NextExtract == ExtractCall

SpecExtract == InitExtract /\ [][NextExtract]_vars

(***************************************************************************)
(* Properties.                                                             *)
(***************************************************************************)
Failed(call) == call.outcome.kind # "message"
ReplyText(call) == extract_text(call.outcome.message.content)
Accepted == puts # <<>> /\ puts[1].accepted
ExtractionRaises ==
    /\ event.hasBody /\ event.b64ok /\ event.payload # <<>>
    /\ extract_text_from_multidata(event.payload).raised

\* the date part of the key, written out for each date of the model
DateText(d) ==
    CASE d = [year |-> 2024, month |-> 3, day |-> 7] -> "2024/3/7"
      [] d = [year |-> 2025, month |-> 12, day |-> 31] -> "2025/12/31"
      [] OTHER -> "?"

\* C1: a stage whose Converse call failed (it raised, or its response had no
\* message) returns its fixed fallback, a stage whose call succeeded returns
\* the reply's text whatever the other stage did, and for every combination
\* the handler, once the store took the write, answers 200 with the summary
\* as body and has written that text under {date}/{file name}.
C1_StagesDegradeIndependently ==
    /\ Len(calls) >= 1 =>
         summarized_note = IF Failed(calls[1]) THEN SUMMARY_FALLBACK ELSE ReplyText(calls[1])
    /\ Len(calls) >= 2 =>
         file_name = IF Failed(calls[2]) THEN FILE_NAME_FALLBACK ELSE ReplyText(calls[2])
    /\ (pc = "done" /\ Len(calls) = 2 /\ Accepted) =>
         /\ response = [statusCode |-> 200, body |-> summarized_note]
         /\ bucket = {[key |-> DateText(now) \o "/" \o file_name, body |-> summarized_note]}

C1_Witness ==
    /\ pc = "done" /\ Len(calls) = 2
    /\ ~Failed(calls[1]) /\ Failed(calls[2])
    /\ summarized_note = "SUMMARY" /\ file_name = FILE_NAME_FALLBACK
    /\ response = [statusCode |-> 200, body |-> "SUMMARY"]

\* C2: when the text extraction raises (a text/plain part whose bytes are
\* invalid for its charset), summarize returns the fixed fallback string and
\* the exception does not leave it.
C2_SummarizeCatchesExtractionFailure ==
    (ExtractionRaises /\ pc = "done") =>
        /\ summarized_note = SUMMARY_FALLBACK
        /\ response # [statusCode |-> 500,
                       body |-> "{\"error\": \"'utf-8' codec can't decode byte\"}"]

\* C3: with both replies received and the write accepted, the handler answers
\* 200 with body exactly the summary S, and has made exactly one write, of S,
\* under "{year}/{month}/{day}/F" with month and day not zero-padded.
C3_EndToEnd ==
    (pc = "done" /\ Len(calls) = 2 /\ ~Failed(calls[1]) /\ ~Failed(calls[2]) /\ Accepted) =>
        LET S == ReplyText(calls[1])
            F == ReplyText(calls[2])
        IN /\ response = [statusCode |-> 200, body |-> S]
           /\ puts = << [key |-> DateText(now) \o "/" \o F, body |-> S, accepted |-> TRUE] >>
           /\ bucket = {[key |-> DateText(now) \o "/" \o F, body |-> S]}

C3_Witness ==
    /\ pc = "done" /\ Accepted
    /\ response = [statusCode |-> 200, body |-> "SUMMARY"]
    /\ puts[1].key = "2024/3/7/my-file.txt"

\* C4: the write is the handler's last effect and comes after both stages:
\* a request that ends with another status than 200 has left no object in
\* the store, and a 200 follows exactly one successful write.
C4_FailsBeforeAnyWrite ==
    /\ puts # <<>> => (Len(puts) = 1 /\ Len(calls) = 2 /\ pc = "done")
    /\ (pc = "done" /\ response.statusCode # 200) => (bucket = {} /\ ~Accepted)
    /\ response.statusCode = 200 => (Len(puts) = 1 /\ Accepted /\ Cardinality(bucket) = 1)
    /\ pc = "done" => response.statusCode \in {200, 400, 500}

C4_Witness ==
    /\ pc = "done" /\ response.statusCode = 500
    /\ Len(puts) = 1 /\ ~puts[1].accepted /\ bucket = {}

\* C5: a request without `body` gets 400 "Missing required parameter: body",
\* a request whose body decodes to empty bytes gets 400 "Transcript content
\* is empty", and neither makes a Converse call or a store write.
C5_ValidationErrors ==
    /\ (pc = "done" /\ ~event.hasBody) =>
         /\ response = [statusCode |-> 400,
                        body |-> "{\"error\": \"Missing required parameter: body\"}"]
         /\ calls = <<>> /\ puts = <<>>
    /\ (pc = "done" /\ event.hasBody /\ event.b64ok /\ event.payload = <<>>) =>
         /\ response = [statusCode |-> 400,
                        body |-> "{\"error\": \"Transcript content is empty\"}"]
         /\ calls = <<>> /\ puts = <<>>

C5_Witness ==
    /\ pc = "done" /\ ~event.hasBody
    /\ response.statusCode = 400

\* C6: a rejected put is attempted once, the handler returns 500 with the
\* exception's message as {"error": ...} and does not raise; an invalid
\* base64 body gets the same shape.
C6_RejectedWriteSurfaced ==
    /\ Len(puts) <= 1
    /\ (pc = "done" /\ puts # <<>> /\ ~puts[1].accepted) =>
         response = [statusCode |-> 500, body |-> "{\"error\": \"" \o PutObjectError \o "\"}"]
    /\ (pc = "done" /\ event.hasBody /\ ~event.b64ok) =>
         response = [statusCode |-> 500, body |-> "{\"error\": \"Incorrect padding\"}"]
    /\ (pc = "done" /\ ExtractionRaises) =>
         response = [statusCode |-> 500,
                     body |-> "{\"error\": \"" \o UnicodeDecodeError \o "\"}"]
    /\ pc = "done" => response # NoResponse

C6_Witness ==
    /\ pc = "done" /\ Len(puts) = 1 /\ ~puts[1].accepted
    /\ response.statusCode = 500

\* C7: a failure of create_bucket at the construction of the store manager
\* ends in a 500 response that carries the exception's message.
C7_ProvisioningFailureIs500 ==
    (pc = "load_failed" /\ createCalls = 1) => response.statusCode = 500

(***************************************************************************)
(* The extraction, stated on the bytes: the text/plain parts in the order  *)
(* of the document.                                                        *)
(***************************************************************************)
DecodedPart(part) ==
    decode(part.payload, IF part.charset = NoCharset THEN "utf-8" ELSE part.charset)

AllDecodable(raw) ==
    \A i \in 1..Len(raw) : raw[i].part.ctype = TextPlain => ~DecodedPart(raw[i].part).raised

RECURSIVE PlainTextFrom(_, _)
PlainTextFrom(raw, i) ==
    IF i > Len(raw) THEN <<>>
    ELSE (IF raw[i].part.ctype = TextPlain THEN DecodedPart(raw[i].part).value ELSE <<>>)
            \o PlainTextFrom(raw, i + 1)

\* r is s without the whitespace around it
IsTrimOf(r, s) ==
    \E i \in 1..(Len(s) + 1), j \in 0..Len(s) :
        /\ r = SubSeq(s, i, j)
        /\ \A k \in 1..(i - 1) : s[k] \in Whitespace
        /\ \A k \in (j + 1)..Len(s) : s[k] \in Whitespace
        /\ r # <<>> => (r[1] \notin Whitespace /\ r[Len(r)] \notin Whitespace)

\* C8: extract returns the decoded payloads of exactly the text/plain parts,
\* nested ones included, concatenated in document order and trimmed; "" for
\* an empty payload and for a message without a text/plain part; and the
\* same string when it is applied again.
C8_ExtractPlainPartsInOrder ==
    \A n \in 1..Len(xout) :
        /\ xout[n].raised <=> ~AllDecodable(xin)
        /\ AllDecodable(xin) => IsTrimOf(xout[n].value, PlainTextFrom(xin, 1))
        /\ (\A i \in 1..Len(xin) : xin[i].part.ctype # TextPlain) =>
              xout[n] = [raised |-> FALSE, value |-> <<>>]
        /\ (n = 2 /\ AllDecodable(xin)) => xout[2].value = xout[1].value

C8_Witness ==
    /\ Len(xout) = 2 /\ Len(xin) = 3
    /\ xin[2].part.ctype = Multipart /\ xin[3].depth = 2
    /\ xin[3].part.payload = <<10, 65, 32>>
    /\ xout[1] = [raised |-> FALSE, value |-> <<65>>]

\* C9 as claimed: whatever the existence probe failed with, the creation of
\* the container is attempted.
C9_AnyProbeFailureCreates ==
    (headResult \in {"ClientError", "OtherError"} /\ pc # "create") => createCalls = 1

\* C9, amended: create_bucket is attempted exactly when head_bucket raised a
\* ClientError (of whatever error code); an exception of head_bucket that is
\* no ClientError leaves the constructor without a creation attempt.
C9_ClientErrorCreates ==
    /\ (headResult = "ClientError" /\ pc # "create") => createCalls = 1
    /\ createCalls >= 1 => (createCalls = 1 /\ headResult = "ClientError")
    /\ headResult = "OtherError" => (pc = "load_failed" /\ createCalls = 0)
    /\ headResult = "ok" => createCalls = 0

C9_Witness ==
    headResult = "ClientError" /\ createCalls = 1 /\ pc = "ready"

\* C10: a request makes at most two Converse calls, the summarization first
\* and the file-name call second, neither repeated; each sends a conversation
\* of one user turn, built for that call; a reply is appended to the
\* conversation of its own stage only, and not when the response had no
\* message; the file-name conversation holds no turn of the summarization's.
C10_ConversationsIndependent ==
    /\ Len(calls) <= 2
    /\ Len(calls) \in (CASE pc = "infer" -> {1}
                          [] pc = "upload" -> {2}
                          [] pc = "done" -> {0, 2}
                          [] OTHER -> {0})
    /\ (pc = "done" /\ calls = <<>>) => response.statusCode # 200
    /\ Len(calls) >= 1 =>
         /\ calls[1].stage = "summary"
         /\ calls[1].sent = << [role |-> "user",
                                content |-> << [text |-> SummaryPrompt(text)] >>] >>
         /\ sumConv = IF Failed(calls[1]) THEN calls[1].sent
                      ELSE calls[1].sent \o <<calls[1].outcome.message>>
    /\ Len(calls) >= 2 =>
         /\ calls[2].stage = "file_name"
         /\ calls[2].sent = << [role |-> "user",
                                content |-> << [text |-> FileNamePrompt(summarized_note)] >>] >>
         /\ nameConv = IF Failed(calls[2]) THEN calls[2].sent
                       ELSE calls[2].sent \o <<calls[2].outcome.message>>
    /\ Len(calls) < 2 => nameConv = <<>>
    /\ \A i \in 1..Len(nameConv) :
         nameConv[i].role = "user" =>
            nameConv[i].content[1].text.instruction = FILE_NAME_INSTRUCTION

C10_Witness ==
    /\ pc = "done" /\ Len(calls) = 2
    /\ ~Failed(calls[1]) /\ Failed(calls[2])
    /\ Len(sumConv) = 2 /\ Len(nameConv) = 1

====
